---- MODULE Spec2Model ----
(***************************************************************************)
(* Model of src/lib/checkPrereqs.js: the six prerequisite checks of the    *)
(* crbt command-line tool (checkInstalled, checkGcloudProject,             *)
(* checkGitLocalAuth, checkGitConfig, checkFileExists, checkLocalDir).     *)
(*                                                                         *)
(* The environment (what the probed programs answer, what the files hold)  *)
(* is chosen in Init and never changes.  The process runs one check at a   *)
(* time; process.exit halts it, and the tool can then be started again in  *)
(* the same environment.                                                   *)
(*                                                                         *)
(* Text is a sequence of one-character strings, so that String.includes is *)
(* a real substring search.  JavaScript values that may be null are tagged *)
(* records [t, v].                                                         *)
(***************************************************************************)
EXTENDS Integers, Sequences, FiniteSets

\* ------------------------------------------------------------------ bounds

\* Longest commandsToCheck array handed to checkInstalled.
MaxCmds == 2
\* Most entries a listed directory holds.
MaxEntries == 1
\* Longest file (in bytes) that checkFileExists reads.
MaxLen == 1

\* ------------------------------------------------------- JavaScript values

JSNull == [t |-> "null", v |-> <<>>]
Num(n) == [t |-> "number", v |-> <<n>>]
Buf(chars) == [t |-> "buffer", v |-> chars]
Str(chars) == [t |-> "string", v |-> chars]

\* a !== b for the values above: different type, or different content.
StrictNeq(a, b) == a.t # b.t \/ a.v # b.v

\* Buffer.prototype.toString(): the buffers here hold ASCII, each byte
\* decodes to the code unit of the same value.
BufferToString(b) == Str(b.v)

\* String.prototype.includes(t): t occurs in s at some offset.
Includes(s, t) ==
    \E i \in 0..(Len(s) - Len(t)) : SubSeq(s, i + 1, i + Len(t)) = t

\* Array.prototype.toString(), used by 'text' + missingPrereqs: the
\* elements joined by ",".
RECURSIVE ArrayToString(_)
ArrayToString(a) ==
    IF Len(a) = 0 THEN <<>>
    ELSE IF Len(a) = 1 THEN <<a[1]>>
    ELSE <<a[1], ",">> \o ArrayToString(Tail(a))

\* ---------------------------------------------------------- fixed literals

UnsetMarker ==
    <<"(", "u", "n", "s", "e", "t", ")">>
EmailMarker ==
    <<"e", "m", "a", "i", "l">>
NameMarker ==
    <<"n", "a", "m", "e">>
CsrDomain ==
    <<"s", "o", "u", "r", "c", "e", ".", "d", "e", "v", "e", "l", "o", "p",
      "e", "r", "s", ".", "g", "o", "o", "g", "l", "e", ".", "c", "o", "m">>
CookiePath == "~/.gitcookies"

MsgNotInstalledHead == "Required pre-requisites not installed: "
MsgNotInstalledTail == ". Exiting..."
MsgGcloud ==
    "The gcloud command does not appear to be initialized fully: no project is configured. Exiting..."
MsgGcloudInit == "To fully initialize gcloud: gcloud init"
MsgGcloudSet == "To set a project: gcloud config set project [NAME]"
MsgAuth ==
    "Authentication to Cloud Source Repositories through git is not configured. Please configure it as defined in: https://cloud.google.com/source-repositories/docs/authentication#manually-generated-credentials"
MsgGit ==
    "The git command does not appear to be initialized fully with a configured email and name. Exiting..."
MsgGitHint == "To fully initialize git, configure name and email with:"
MsgGitEmail == "git config --global user.email \"you@example.com\""
MsgGitName == "git config --global user.name \"Your Name\""

\* ------------------------------------------------- the environment's range

\* Lines the external programs and the cookie file are made of.
LineUnset ==
    <<"(", "u", "n", "s", "e", "t", ")", "\n">>
LineEmail ==
    <<"u", "s", "e", "r", ".", "e", "m", "a", "i", "l", "=", "x", "@", "y",
      ".", "c", "o", "m", "\n">>
LineName ==
    <<"u", "s", "e", "r", ".", "n", "a", "m", "e", "=", "X", "\n">>
LineEmailNamed ==
    <<"u", "s", "e", "r", ".", "e", "m", "a", "i", "l", "=", "n", "a", "m",
      "e", "@", "y", ".", "c", "o", "m", "\n">>
LineCsr ==
    <<"s", "o", "u", "r", "c", "e", ".", "d", "e", "v", "e", "l", "o", "p",
      "e", "r", "s", ".", "g", "o", "o", "g", "l", "e", ".", "c", "o", "m",
      "\t", "F", "A", "L", "S", "E", "\n">>
LineOther ==
    <<".", "g", "o", "o", "g", "l", "e", "s", "o", "u", "r", "c", "e", ".",
      "c", "o", "m", "\t", "T", "R", "U", "E", "\n">>

Programs == {"foo", "bar"}
CommandLists == UNION {[1..n -> Programs] : n \in 0..MaxCmds}
Paths == {"target"}

\* What spawnSync returns: a program that ran has a numeric status and two
\* captured buffers; one that could not be launched has null for all three.
Ran(status, out, err) ==
    [status |-> Num(status), stdout |-> Buf(out), stderr |-> Buf(err)]
LaunchFailed == [status |-> JSNull, stdout |-> JSNull, stderr |-> JSNull]

ProbeResults == {Ran(0, <<>>, <<>>), Ran(1, <<>>, <<>>), LaunchFailed}
GcloudStderrs == {<<>>, LineUnset}
GcloudResults ==
    {LaunchFailed} \cup {Ran(s, <<>>, e) : s \in {0, 1}, e \in GcloudStderrs}
GitStdouts ==
    {LineEmail \o LineName, LineEmail, LineName, LineEmailNamed}
GitResults ==
    {LaunchFailed} \cup {Ran(s, o, <<>>) : s \in {0, 1}, o \in GitStdouts}

\* What a read finds at a path: nothing, something unreadable, a file with
\* its bytes, or a directory with its entry names.
Bytes(n) == [i \in 1..n |-> "x"]
Entries(n) == [i \in 1..n |-> "entry"]
FileNode(chars) == [kind |-> "file", data |-> chars]
DirNode(names) == [kind |-> "dir", data |-> names]
Absent == [kind |-> "ENOENT", data |-> <<>>]
Denied == [kind |-> "EACCES", data |-> <<>>]
CookieNodes == {Absent, Denied, FileNode(LineCsr), FileNode(LineOther)}
TargetNodes ==
    {Absent, Denied}
    \cup {FileNode(Bytes(n)) : n \in 0..MaxLen}
    \cup {DirNode(Entries(n)) : n \in 0..MaxEntries}


\* -------------------------------------------------------------------- state

VARIABLES
    probe,          \* environment: what `<program> --version` answers
    gcloud,         \* environment: what `gcloud config get-value project` answers
    git,            \* environment: what `git config --list` answers
    cookieNode,     \* environment: what is at <home>/.gitcookies
    fs,             \* environment: what is at each other path
    pc,             \* where the process is
    call,           \* the check invoked last: [fn, arg]
    command,        \* checkInstalled: the loop variable (1-based here)
    missingPrereqs, \* checkInstalled: the missing list
    spawned,        \* checkGcloudProject / checkGitConfig: spawnSync's result
    gitCookies,     \* checkGitLocalAuth: the local of that name
    fileData,       \* checkFileExists: the local of that name
    listing,        \* checkLocalDir: what readdir hands its callback
    promise,        \* checkLocalDir: the returned promise's state
    trace,          \* what the invocation did, in order
    result,         \* how the invocation ended ("none" while it runs)
    prev            \* result and trace of the invocation before, when it
                    \* was the same call (else NoPrev)

env == <<probe, gcloud, git, cookieNode, fs>>
locals ==
    <<command, missingPrereqs, spawned, gitCookies, fileData, listing, promise>>
vars == <<env, pc, call, locals, trace, result, prev>>

\* Observable events.  n is the exit code of an "exit" event, 0 otherwise.
Ev(kind, arg) == [ev |-> kind, arg |-> arg, n |-> 0]
ExitEv(code) == [ev |-> "exit", arg |-> <<>>, n |-> code]
Failure(text) == Ev("log.failure", text)
Warn(text) == Ev("log.warn", text)
\* varFmt only restyles the command it is given.
VarFmt(text) == text

NoCall == [fn |-> "none", arg |-> <<>>]
NoPrev == [result |-> "none", trace |-> <<>>]
NoListing == [err |-> FALSE, files |-> <<>>]

Init ==
    /\ probe \in [Programs -> ProbeResults]
    /\ gcloud \in GcloudResults
    /\ git \in GitResults
    /\ cookieNode \in CookieNodes
    /\ fs \in [Paths -> TargetNodes]
    /\ pc = "idle"
    /\ call = NoCall
    /\ command = 1
    /\ missingPrereqs = <<>>
    /\ spawned = LaunchFailed
    /\ gitCookies = JSNull
    /\ fileData = JSNull
    /\ listing = NoListing
    /\ promise = "none"
    /\ trace = <<>>
    /\ result = "none"
    /\ prev = NoPrev

\* ------------------------------------------------------------ collaborators

\* child_process.spawnSync(cmd, args): synchronous, answers from the
\* environment.
SpawnSync(cmd, args) ==
    IF cmd = "gcloud" THEN gcloud
    ELSE IF cmd = "git" THEN git
    ELSE probe[cmd]

\* The node at a path.
NodeAt(path) == IF path = CookiePath THEN cookieNode ELSE fs[path]

\* fs.readFileSync(path): a Buffer, or an exception for anything but a file.
ReadThrows(path) == NodeAt(path).kind # "file"
ReadFileSync(path) == Buf(NodeAt(path).data)

\* fs.readdir(path, cb): cb(err) for anything but a directory, else
\* cb(null, files).
Readdir(path) ==
    IF NodeAt(path).kind = "dir"
    THEN [err |-> FALSE, files |-> NodeAt(path).data]
    ELSE [err |-> TRUE, files |-> <<>>]

\* Mutant of ProcessExit: process.exit returns and the caller goes on.
ProcessExitReturns(next) == next

\* process.exit(code) does not return: whatever statement would follow
\* (next), the process is over.
ProcessExit(next) == "exited"

\* A check begins: the invocation's record starts afresh, and remembers the
\* previous outcome when this is the same call again.  The locals of the
\* invocation before are gone: each *_Call action sets its own and clears
\* the others.
Begin(k) ==
    /\ pc = "idle"
    /\ call' = k
    /\ prev' = IF call = k /\ result # "none"
               THEN [result |-> result, trace |-> trace]
               ELSE NoPrev


\* The invocation goes on at pc value next, having done events.
Continue(events, next) ==
    /\ trace' = trace \o events
    /\ pc' = next
    /\ result' = "none"

\* The invocation ends: control is back with the caller, which got res.
Return(events, res) ==
    /\ trace' = trace \o events
    /\ pc' = "idle"
    /\ result' = res

\* An exception nobody catches ends the process.
Throw(events) ==
    /\ trace' = trace \o events \o <<Ev("throw", <<"TypeError">>)>>
    /\ pc' = "crashed"
    /\ result' = "threw"

\* The failing path of a fatal check: events ends with the process.exit
\* call; the statement that would follow it is at next.
Fatal(events, next) ==
    /\ trace' = trace \o events
    /\ pc' = ProcessExit(next)
    /\ result' = IF ProcessExit(next) = "exited" THEN "exited"
                 ELSE IF next = "idle" THEN "returned" ELSE "none"

\* ------------------------------------------------------------ checkInstalled

\* Mutant of LoopStart: the loop variable is shared between invocations and
\* not set back.
StaleLoopStart == command

\* Mutant of LoopContinues: the loop ends at the first missing program.
LoopStopsAtFirstMissing(i, commandsToCheck, missing) ==
    i <= Len(commandsToCheck) /\ Len(missing) = 0

\* for (let command in commandsToCheck): the keys of the array in
\* ascending order, from the first.
LoopStart == 1
LoopContinues(i, commandsToCheck, missing) == i <= Len(commandsToCheck)

\* Mutant of ProbeFailed: status > 0, which null does not satisfy.
ProbeFailedPositive(r) == r.status.t = "number" /\ r.status.v[1] > 0

\* spawn(...).status !== 0
ProbeFailed(r) == StrictNeq(r.status, Num(0))

\* console.log(failure(...)); process.exit(1);
InstalledFailure(missing) ==
    << Failure(<<MsgNotInstalledHead>> \o ArrayToString(missing)
               \o <<MsgNotInstalledTail>>),
       ExitEv(1) >>

\* Lines 28-32: the empty array returns at once; otherwise the missing
\* list starts empty and the loop begins.
CheckInstalled_Call(commandsToCheck) ==
    /\ Begin([fn |-> "checkInstalled", arg |-> commandsToCheck])
    /\ trace' = <<>>
    /\ IF Len(commandsToCheck) = 0
       THEN /\ pc' = "idle"
            /\ result' = "returned"
            /\ UNCHANGED <<command, missingPrereqs>>
       ELSE /\ pc' = "ci_loop"
            /\ result' = "none"
            /\ command' = LoopStart
            /\ missingPrereqs' = <<>>
    /\ UNCHANGED env
    /\ spawned' = LaunchFailed
    /\ gitCookies' = JSNull
    /\ fileData' = JSNull
    /\ listing' = NoListing
    /\ promise' = "none"

\* Lines 33-37: one iteration of the loop.
CheckInstalled_Probe ==
    /\ pc = "ci_loop"
    /\ LoopContinues(command, call.arg, missingPrereqs)
    /\ LET name == call.arg[command]
           r == SpawnSync(name, <<"--version">>)
       IN /\ Continue(<<Ev("spawn", <<name, "--version">>)>>, "ci_loop")
          /\ missingPrereqs' = IF ProbeFailed(r)
                               THEN Append(missingPrereqs, name)
                               ELSE missingPrereqs
    /\ command' = command + 1
    /\ UNCHANGED <<env, call, prev, spawned, gitCookies, fileData, listing,
                   promise>>

\* Lines 38-42: after the loop.
CheckInstalled_Report ==
    /\ pc = "ci_loop"
    /\ ~LoopContinues(command, call.arg, missingPrereqs)
    /\ IF Len(missingPrereqs) # 0
       THEN Fatal(InstalledFailure(missingPrereqs), "idle")
       ELSE Return(<<>>, "returned")
    /\ UNCHANGED <<env, call, prev, locals>>

\* -------------------------------------------------------- checkGcloudProject

GcloudArgs == <<"config", "get-value", "project">>

\* Mutant of GcloudUnmet: the '(unset)' test is left out.
GcloudUnmetStatusOnly(r) ==
    IF StrictNeq(r.status, Num(0)) THEN "true" ELSE "false"

\* checkGcloud.status !== 0 || checkGcloud.stderr.toString().includes('(unset)')
\* evaluated left to right: "true", "false", or "throw" when toString is
\* called on null.
GcloudUnmet(r) ==
    IF StrictNeq(r.status, Num(0)) THEN "true"
    ELSE IF r.stderr.t = "null" THEN "throw"
    ELSE IF Includes(BufferToString(r.stderr).v, UnsetMarker) THEN "true"
    ELSE "false"

\* Mutant of GcloudFailure: process.exit is called before the hints.
GcloudFailureExitFirst ==
    << Failure(<<MsgGcloud>>), ExitEv(1), Warn(<<MsgGcloudInit>>),
       Warn(<<MsgGcloudSet>>) >>

GcloudFailure ==
    << Failure(<<MsgGcloud>>), Warn(<<MsgGcloudInit>>), Warn(<<MsgGcloudSet>>),
       ExitEv(1) >>

\* Line 48.
CheckGcloudProject_Call ==
    /\ Begin([fn |-> "checkGcloudProject", arg |-> <<>>])
    /\ spawned' = SpawnSync("gcloud", GcloudArgs)
    /\ trace' = <<Ev("spawn", <<"gcloud">> \o GcloudArgs)>>
    /\ pc' = "gp_test"
    /\ result' = "none"
    /\ UNCHANGED env
    /\ command' = 1
    /\ missingPrereqs' = <<>>
    /\ gitCookies' = JSNull
    /\ fileData' = JSNull
    /\ listing' = NoListing
    /\ promise' = "none"

\* Lines 49-55.
CheckGcloudProject_Test ==
    /\ pc = "gp_test"
    /\ CASE GcloudUnmet(spawned) = "throw" -> Throw(<<>>)
         [] GcloudUnmet(spawned) = "true" -> Fatal(GcloudFailure, "idle")
         [] OTHER -> Return(<<>>, "returned")
    /\ UNCHANGED <<env, call, prev, locals>>

\* --------------------------------------------------------- checkGitLocalAuth

AuthFailure == << Failure(<<MsgAuth>>), ExitEv(1) >>

\* Lines 60-68: the read, and its catch block.
CheckGitLocalAuth_Call ==
    /\ Begin([fn |-> "checkGitLocalAuth", arg |-> <<>>])
    /\ IF ReadThrows(CookiePath)
       THEN /\ gitCookies' = JSNull
            /\ trace' = <<Ev("read", <<CookiePath>>)>> \o AuthFailure
            /\ pc' = ProcessExit("la_test")
            /\ result' = IF ProcessExit("la_test") = "exited"
                         THEN "exited" ELSE "none"
       ELSE /\ gitCookies' = BufferToString(ReadFileSync(CookiePath))
            /\ trace' = <<Ev("read", <<CookiePath>>)>>
            /\ pc' = "la_test"
            /\ result' = "none"
    /\ UNCHANGED env
    /\ command' = 1
    /\ missingPrereqs' = <<>>
    /\ spawned' = LaunchFailed
    /\ fileData' = JSNull
    /\ listing' = NoListing
    /\ promise' = "none"

\* !gitCookies.includes('source.developers.google.com')
CookiesUnmet(cookies) ==
    IF cookies.t = "null" THEN "throw"
    ELSE IF ~Includes(cookies.v, CsrDomain) THEN "true"
    ELSE "false"

\* Lines 70-74.
CheckGitLocalAuth_Test ==
    /\ pc = "la_test"
    /\ CASE CookiesUnmet(gitCookies) = "throw" ->
               Throw(<<Ev("includes", <<>>)>>)
         [] CookiesUnmet(gitCookies) = "true" ->
               Fatal(<<Ev("includes", <<>>)>> \o AuthFailure, "idle")
         [] OTHER -> Return(<<Ev("includes", <<>>)>>, "returned")
    /\ UNCHANGED <<env, call, prev, locals>>

\* ------------------------------------------------------------ checkGitConfig

GitArgs == <<"config", "--list">>

\* Mutant of GitUnmet: the captured output is inspected before the status.
GitUnmetOutputFirst(r) ==
    IF r.stdout.t = "null" THEN "throw"
    ELSE IF ~Includes(BufferToString(r.stdout).v, EmailMarker) THEN "true"
    ELSE IF ~Includes(BufferToString(r.stdout).v, NameMarker) THEN "true"
    ELSE IF StrictNeq(r.status, Num(0)) THEN "true"
    ELSE "false"

\* status !== 0 || !stdout.toString().includes('email')
\*              || !stdout.toString().includes('name')
GitUnmet(r) ==
    IF StrictNeq(r.status, Num(0)) THEN "true"
    ELSE IF r.stdout.t = "null" THEN "throw"
    ELSE IF ~Includes(BufferToString(r.stdout).v, EmailMarker) THEN "true"
    ELSE IF ~Includes(BufferToString(r.stdout).v, NameMarker) THEN "true"
    ELSE "false"

GitFailure ==
    << Failure(<<MsgGit>>), Warn(<<MsgGitHint>>),
       Warn(<<"\t", VarFmt(MsgGitEmail)>>), Warn(<<"\t", VarFmt(MsgGitName)>>),
       ExitEv(1) >>

\* Line 80.
CheckGitConfig_Call ==
    /\ Begin([fn |-> "checkGitConfig", arg |-> <<>>])
    /\ spawned' = SpawnSync("git", GitArgs)
    /\ trace' = <<Ev("spawn", <<"git">> \o GitArgs)>>
    /\ pc' = "gc_test"
    /\ result' = "none"
    /\ UNCHANGED env
    /\ command' = 1
    /\ missingPrereqs' = <<>>
    /\ gitCookies' = JSNull
    /\ fileData' = JSNull
    /\ listing' = NoListing
    /\ promise' = "none"

\* Lines 81-88.
CheckGitConfig_Test ==
    /\ pc = "gc_test"
    /\ CASE GitUnmet(spawned) = "throw" -> Throw(<<>>)
         [] GitUnmet(spawned) = "true" -> Fatal(GitFailure, "idle")
         [] OTHER -> Return(<<>>, "returned")
    /\ UNCHANGED <<env, call, prev, locals>>

\* ----------------------------------------------------------- checkFileExists

\* Lines 94-98: the read; the empty catch block leaves fileData null.
CheckFileExists_Call(file) ==
    /\ Begin([fn |-> "checkFileExists", arg |-> <<file>>])
    /\ fileData' = IF ReadThrows(file) THEN JSNull ELSE ReadFileSync(file)
    /\ trace' = <<Ev("read", <<file>>)>>
    /\ pc' = "fe_test"
    /\ result' = "none"
    /\ UNCHANGED env
    /\ command' = 1
    /\ missingPrereqs' = <<>>
    /\ spawned' = LaunchFailed
    /\ gitCookies' = JSNull
    /\ listing' = NoListing
    /\ promise' = "none"

\* Mutant of FileDataPresent: fileData.length is tested as well.
FileDataNonEmpty(data) == data.t # "null" /\ Len(data.v) > 0

\* fileData !== null
FileDataPresent(data) == StrictNeq(data, JSNull)

\* Lines 100-105.
CheckFileExists_Test ==
    /\ pc = "fe_test"
    /\ Return(<<>>, IF FileDataPresent(fileData) THEN "true" ELSE "false")
    /\ UNCHANGED <<env, call, prev, locals>>

\* ------------------------------------------------------------- checkLocalDir

\* Lines 111-113: the promise is created and returned pending, the listing
\* is under way.
CheckLocalDir_Call(dirName) ==
    /\ Begin([fn |-> "checkLocalDir", arg |-> <<dirName>>])
    /\ promise' = "pending"
    /\ listing' = NoListing
    /\ trace' = <<Ev("readdir", <<dirName>>)>>
    /\ pc' = "ld_pending"
    /\ result' = "none"
    /\ UNCHANGED env
    /\ command' = 1
    /\ missingPrereqs' = <<>>
    /\ spawned' = LaunchFailed
    /\ gitCookies' = JSNull
    /\ fileData' = JSNull

\* The listing completes; its callback is due.
Readdir_Complete ==
    /\ pc = "ld_pending"
    /\ listing' = Readdir(call.arg[1])
    /\ Continue(<<Ev("listed", call.arg)>>, "ld_callback")
    /\ UNCHANGED <<env, call, prev, command, missingPrereqs, spawned,
                   gitCookies, fileData, promise>>

\* Mutant of Settlement: the err argument is not looked at.
SettlementIgnoresErr(l) ==
    IF Len(l.files) = 0 THEN <<Ev("resolve", <<>>)>>
    ELSE <<Ev("reject", <<>>)>>

\* Lines 114-122: the calls the callback makes on the promise, in order;
\* each branch returns after one.
Settlement(l) ==
    IF l.err THEN <<Ev("reject", <<>>)>>
    ELSE IF Len(l.files) = 0 THEN <<Ev("resolve", <<>>)>>
    ELSE <<Ev("reject", <<>>)>>

\* A promise keeps its first settlement.
Settled(state, events) ==
    IF state # "pending" \/ Len(events) = 0 THEN state
    ELSE IF events[1].ev = "resolve" THEN "resolved" ELSE "rejected"

CheckLocalDir_Callback ==
    /\ pc = "ld_callback"
    /\ promise' = Settled(promise, Settlement(listing))
    /\ Return(Settlement(listing), Settled(promise, Settlement(listing)))
    /\ UNCHANGED <<env, call, prev, command, missingPrereqs, spawned,
                   gitCookies, fileData, listing>>

\* ------------------------------------------------------------------ process

\* The tool is started again: a new process, the module loaded anew.  What
\* the last invocation did stays on record.
Restart ==
    /\ pc \in {"exited", "crashed"}
    /\ pc' = "idle"
    /\ command' = 1
    /\ missingPrereqs' = <<>>
    /\ spawned' = LaunchFailed
    /\ gitCookies' = JSNull
    /\ fileData' = JSNull
    /\ listing' = NoListing
    /\ promise' = "none"
    /\ UNCHANGED <<env, call, trace, result, prev>>

Next ==
    \/ \E c \in CommandLists : CheckInstalled_Call(c)
    \/ CheckInstalled_Probe
    \/ CheckInstalled_Report
    \/ CheckGcloudProject_Call
    \/ CheckGcloudProject_Test
    \/ CheckGitLocalAuth_Call
    \/ CheckGitLocalAuth_Test
    \/ CheckGitConfig_Call
    \/ CheckGitConfig_Test
    \/ \E f \in Paths : CheckFileExists_Call(f)
    \/ CheckFileExists_Test
    \/ \E d \in Paths : CheckLocalDir_Call(d)
    \/ Readdir_Complete
    \/ CheckLocalDir_Callback
    \/ Restart

Spec == Init /\ [][Next]_vars


\* ============================================================== properties

\* The invocation named fn is over (returned, settled, exited or crashed).
Finished(fn) == call.fn = fn /\ result # "none"

Events(kind) == SelectSeq(trace, LAMBDA e : e.ev = kind)
LogEvents == SelectSeq(trace, LAMBDA e : e.ev \in {"log.failure", "log.warn"})
SpawnEv(name) == Ev("spawn", <<name, "--version">>)

\* The entries of a command list whose probe did not exit with status 0,
\* read off the environment.
NotInstalled(cmds) ==
    SelectSeq(cmds, LAMBDA c : probe[c] = LaunchFailed
                               \/ probe[c].status.v # <<0>>)

\* The program names a message carries, in order.
NamesIn(message) == SelectSeq(message, LAMBDA w : w \in Programs)

GcloudReady ==
    /\ gcloud # LaunchFailed
    /\ gcloud.status.v = <<0>>
    /\ ~Includes(gcloud.stderr.v, UnsetMarker)

GcloudSpawnEv == Ev("spawn", <<"gcloud", "config", "get-value", "project">>)

\* C3: checkGcloudProject returns with no output exactly when the project
\* query exited 0 and its error stream lacks '(unset)'; otherwise it emits
\* the failure message, then the two hints, then terminates with code 1.
C3_GcloudPassesIffStatusZeroAndSet ==
    Finished("checkGcloudProject") =>
       IF GcloudReady
       THEN result = "returned" /\ trace = <<GcloudSpawnEv>>
       ELSE /\ result = "exited"
            /\ trace = << GcloudSpawnEv, Failure(<<MsgGcloud>>),
                          Warn(<<MsgGcloudInit>>), Warn(<<MsgGcloudSet>>),
                          ExitEv(1) >>

\* C3 witness: exit status 0 with '(unset)' on the error stream failed.
C3_Witness ==
    /\ Finished("checkGcloudProject")
    /\ gcloud = Ran(0, <<>>, LineUnset)
    /\ result = "exited"


\* text holds a configuration entry for key: key, then "=", at the start
\* of a line.
HasEntry(text, key) ==
    \E i \in 1..Len(text) :
        /\ i = 1 \/ text[i - 1] = "\n"
        /\ i + Len(key) <= Len(text)
        /\ SubSeq(text, i, i + Len(key) - 1) = key
        /\ text[i + Len(key)] = "="

UserEmailKey == <<"u", "s", "e", "r", ".", "e", "m", "a", "i", "l">>
UserNameKey == <<"u", "s", "e", "r", ".", "n", "a", "m", "e">>

\* C4: checkGitConfig returns silently only when the listing exited 0 and
\* its output holds both a user.email entry and a user.name entry; output
\* with a user.email entry only fails, whatever the address is.
C4_GitPassNeedsEmailAndNameEntries ==
    Finished("checkGitConfig") =>
       (result = "returned" <=>
          /\ git # LaunchFailed
          /\ git.status.v = <<0>>
          /\ HasEntry(git.stdout.v, UserEmailKey)
          /\ HasEntry(git.stdout.v, UserNameKey))

\* The cookie file can be read, and holds the Cloud Source Repositories
\* domain.
CookiesReadable == cookieNode.kind = "file"
CookiesConfigured == Includes(cookieNode.data, CsrDomain)
CookieReadEv == Ev("read", <<CookiePath>>)
IncludesEv == Ev("includes", <<>>)

\* C5: checkGitLocalAuth returns with no output exactly when the read of
\* <home>/.gitcookies succeeds and the content holds
\* 'source.developers.google.com'; a failed read and a missing marker each
\* emit the same message once and then terminate with code 1; the content
\* test is not evaluated after a failed read.
C5_AuthPassesIffReadableAndMarked ==
    /\ (pc = "la_test" => CookiesReadable /\ gitCookies.t = "string")
    /\ (Finished("checkGitLocalAuth") =>
          CASE ~CookiesReadable ->
                 /\ result = "exited"
                 /\ trace = <<CookieReadEv, Failure(<<MsgAuth>>), ExitEv(1)>>
            [] CookiesReadable /\ ~CookiesConfigured ->
                 /\ result = "exited"
                 /\ trace = << CookieReadEv, IncludesEv, Failure(<<MsgAuth>>),
                               ExitEv(1) >>
            [] OTHER ->
                 /\ result = "returned"
                 /\ trace = <<CookieReadEv, IncludesEv>>)

\* C5 witness: the file is missing, and the check ended the process
\* without testing any content.
C5_Witness ==
    /\ Finished("checkGitLocalAuth")
    /\ cookieNode = Absent
    /\ result = "exited"
    /\ Events("includes") = <<>>

\* C6: checkFileExists returns true exactly when the read of the path
\* succeeds (a file of length zero included) and false for every read
\* error; it throws nothing, prints nothing and does not end the process.
C6_FileExistsIffReadSucceeds ==
    Finished("checkFileExists") =>
       /\ result = (IF NodeAt(call.arg[1]).kind = "file" THEN "true"
                    ELSE "false")
       /\ trace = <<Ev("read", call.arg)>>
       /\ pc = "idle"

\* C6 witness: a file of length zero was found to exist.
C6_Witness ==
    /\ Finished("checkFileExists")
    /\ NodeAt(call.arg[1]) = FileNode(<<>>)
    /\ result = "true"

\* C7: the promise checkLocalDir returns is pending until the listing has
\* completed, and is then settled exactly once: resolved when the listing
\* succeeded with no entries, rejected without a payload when it has
\* entries or failed; the process is not terminated.
C7_DirPromiseSettledOnceAfterListing ==
    /\ (pc \in {"ld_pending", "ld_callback"} =>
          /\ promise = "pending"
          /\ Events("resolve") = <<>> /\ Events("reject") = <<>>)
    /\ (Finished("checkLocalDir") =>
          LET node == NodeAt(call.arg[1])
              empty == node.kind = "dir" /\ Len(node.data) = 0
              settle == IF empty THEN "resolve" ELSE "reject"
          IN /\ trace = << Ev("readdir", call.arg), Ev("listed", call.arg),
                           Ev(settle, <<>>) >>
             /\ promise = (IF empty THEN "resolved" ELSE "rejected")
             /\ result = promise
             /\ pc = "idle")

\* C7 witness: a path that is not there was listed, and the promise was
\* rejected.
C7_Witness ==
    /\ Finished("checkLocalDir")
    /\ NodeAt(call.arg[1]) = Absent
    /\ promise = "rejected"
    /\ Len(Events("reject")) = 1


FatalChecks ==
    {"checkInstalled", "checkGcloudProject", "checkGitConfig",
     "checkGitLocalAuth"}

ExpectedResult(k) ==
    CASE k.fn = "checkInstalled" ->
           IF NotInstalled(k.arg) = <<>> THEN "returned" ELSE "exited"
      [] k.fn = "checkGcloudProject" ->
           IF GcloudReady THEN "returned" ELSE "exited"
      [] k.fn = "checkGitLocalAuth" ->
           IF CookiesReadable /\ CookiesConfigured THEN "returned"
           ELSE "exited"
      [] k.fn = "checkGitConfig" ->
           IF /\ git # LaunchFailed
              /\ git.status.v = <<0>>
              /\ Includes(git.stdout.v, EmailMarker)
              /\ Includes(git.stdout.v, NameMarker)
           THEN "returned" ELSE "exited"
      [] k.fn = "checkFileExists" ->
           IF NodeAt(k.arg[1]).kind = "file" THEN "true" ELSE "false"
      [] k.fn = "checkLocalDir" ->
           IF NodeAt(k.arg[1]).kind = "dir" /\ Len(NodeAt(k.arg[1]).data) = 0
           THEN "resolved" ELSE "rejected"

\* An invocation that is over ended as its arguments and the environment
\* alone decide, and, when the invocation before it was the same call,
\* ended and acted exactly as that one did.
SameOutcome ==
    result # "none" =>
       /\ result = ExpectedResult(call)
       /\ (prev # NoPrev => prev = [result |-> result, trace |-> trace])

\* C9: no step of any check changes the environment, and every invocation
\* ends the same way whatever ran before it: as the environment and its
\* arguments decide, and exactly as the same call did just before.
C9_OutcomeDependsOnEnvironmentOnly ==
    [][env' = env /\ SameOutcome']_vars

\* C9 witness: checkGitLocalAuth failed, the tool was started again, and
\* the same check failed again in the same way.
C9_Witness ==
    /\ Finished("checkGitLocalAuth")
    /\ prev # NoPrev
    /\ prev.result = "exited"
    /\ result = "exited"
    /\ prev.trace = trace

====
